---- MODULE Spec2Model ----
(***************************************************************************)
(* VoiceApp.py: a Tk foreground loop, a background loader thread for the   *)
(* offline (Vosk) model, and one background listen thread per click of the *)
(* "Start Listening" button.  Background threads hand work to the          *)
(* foreground with app.after(0, callback); the callbacks run in FIFO order *)
(* on the foreground loop.                                                 *)
(*                                                                         *)
(* Strings are sequences of one-character strings.  Words are abbreviated  *)
(* to one letter: "s" safety, "r" reset, "x" any other word, "S" and "R"   *)
(* the capitalised forms; " " and "," are themselves.                      *)
(***************************************************************************)
EXTENDS Integers, Sequences, FiniteSets, TLC

VARIABLES
    VoskModel,                \* the imported class, or None (lines 9-12)
    vosk_model,               \* global, line 18
    is_vosk_loaded,           \* global, line 19
    loader,                   \* the load_vosk_model thread: [pc, e]
    reloader,                 \* the thread of a second load_model_in_thread call
    threads,                  \* the listen threads, by start order
    queue,                    \* callbacks registered with app.after, FIFO
    persistent_status_label,  \* line 145
    ephemeral_status_label,   \* line 149
    progress_bar,             \* line 153: "hidden" or "shown"
    phrase_entry,             \* line 162, the text of the entry
    transcript_text,          \* line 173, the lines inserted
    key_phrase_text,          \* line 183, the lines inserted
    toggle_var,               \* line 193
    edits,                    \* how often the operator changed an input so far
    callback_errors,          \* exceptions Tk reported for after-callbacks
    call                      \* a direct call of a pure function: arguments, result

vars == <<VoskModel, vosk_model, is_vosk_loaded, loader, threads, queue,
          persistent_status_label, ephemeral_status_label, progress_bar,
          phrase_entry, transcript_text, key_phrase_text, toggle_var,
          edits, callback_errors, call, reloader>>

\* ------------------------------------------------------------------ bounds
MaxCycles == 2       \* clicks of "Start Listening" in one run
MaxPending == 1      \* callbacks registered with app.after and not yet run
MaxEdits == 1        \* changes the operator makes to the switch and the entry
MaxTextLen == 3      \* characters of a text given to extract_phrases directly
MaxPhraseLen == 3    \* characters of one target phrase given directly
MaxPhrases == 2      \* target phrases given directly
MaxInputLen == 4     \* characters of a phrase entry given to process_text directly

None == "None"
Unbound == "<unbound>"
NoCall == [fn |-> "none"]

\* ------------------------------------------------------------ str methods
Min(S) == CHOOSE x \in S : \A y \in S : x <= y
Max(S) == CHOOSE x \in S : \A y \in S : x >= y

\* str.strip(): the string without its leading and trailing whitespace
strip(s) ==
    LET idx == {i \in 1..Len(s) : s[i] # " "}
    IN  IF idx = {} THEN <<>> ELSE SubSeq(s, Min(idx), Max(idx))

\* str.split(","): the pieces between the commas, always at least one
RECURSIVE split(_)
split(s) ==
    LET commas == {i \in 1..Len(s) : s[i] = ","}
    IN  IF commas = {} THEN <<s>>
        ELSE <<SubSeq(s, 1, Min(commas) - 1)>>
             \o split(SubSeq(s, Min(commas) + 1, Len(s)))

\* ------------------------------------------------------------------ spaCy
\* The tokenizer behind nlp(text) and nlp.make_doc(text): a token is a
\* maximal run of non-space characters; one space after a token is that
\* token's trailing whitespace, and any further run of spaces (or a run at
\* the start of the text) is a whitespace token.  A token is [first, last],
\* character positions in the text.
RECURSIVE tokens_from(_, _, _)
tokens_from(text, i, after_word) ==
    IF i > Len(text) THEN <<>>
    ELSE LET same == {j \in i..Len(text) :
                         \A k \in i..j : (text[k] = " ") = (text[i] = " ")}
             last == Max(same)
         IN  IF text[i] # " "
             THEN <<[first |-> i, last |-> last]>> \o tokens_from(text, last + 1, TRUE)
             ELSE IF after_word
                  THEN tokens_from(text, i + 1, FALSE)
                  ELSE <<[first |-> i, last |-> last]>> \o tokens_from(text, last + 1, FALSE)

nlp(text) == [text |-> text, tokens |-> tokens_from(text, 1, FALSE)]

\* token.orth_: the verbatim text of the i-th token
orth(doc, i) == SubSeq(doc.text, doc.tokens[i].first, doc.tokens[i].last)

\* the ORTH attribute values of doc[i..j], the key a PhraseMatcher built
\* without attr= compares (line 54 passes only the vocab)
orths(doc, i, j) == [k \in 1..(j - i + 1) |-> orth(doc, i + k - 1)]

\* doc[start:end].text: the text from the first token to the last
span_text(doc, i, j) == SubSeq(doc.text, doc.tokens[i].first, doc.tokens[j].last)

\* matcher(doc): every span whose key is a pattern's key, by start then end
RECURSIVE matcher(_, _, _, _)
matcher(doc, keys, i, j) ==
    IF i > Len(doc.tokens) THEN <<>>
    ELSE IF j > Len(doc.tokens) THEN matcher(doc, keys, i + 1, i + 1)
    ELSE (IF orths(doc, i, j) \in keys THEN <<[start |-> i, end |-> j]>> ELSE <<>>)
         \o matcher(doc, keys, i, j + 1)

\* extract_phrases, lines 51-59
extract_phrases(text, target_phrases) ==
    LET doc == nlp(text)
        patterns == {nlp(strip(target_phrases[k])) :
                        k \in {n \in 1..Len(target_phrases) :
                                  strip(target_phrases[n]) # <<>>}}
        keys == IF patterns # {} THEN {orths(p, 1, Len(p.tokens)) : p \in patterns}
                ELSE {}
        matches == matcher(doc, keys, 1, 1)
    IN  [m \in 1..Len(matches) |-> span_text(doc, matches[m].start, matches[m].end)]

\* lines 121-125 testing user_input instead of user_input.strip()
target_phrases_of_unstripped(user_input) ==
    IF user_input # <<>>
    THEN LET pieces == split(user_input)
         IN  [k \in 1..Len(pieces) |-> strip(pieces[k])]
    ELSE << <<"s", " ", "r">> >>

\* process_text, lines 121-125: the target phrases parsed from the entry
target_phrases_of(user_input) ==
    IF strip(user_input) # <<>>
    THEN LET pieces == split(user_input)
         IN  [k \in 1..Len(pieces) |-> strip(pieces[k])]
    ELSE << <<"s", " ", "r">> >>

\* process_text, lines 127-130: the line for the key-phrase text box
key_phrase_line(phrases) ==
    IF phrases # <<>> THEN [kind |-> "Key Phrases: ", phrases |-> phrases]
    ELSE [kind |-> "No key phrases detected.", phrases |-> <<>>]

\* ------------------------------------------------------------- the inputs
\* what a recognition backend may return
RecTexts == { <<"S", " ", "r">>, <<"x">> }
\* what the operator may type into the phrase entry
EntryTexts == { <<"S", " ", "r", ",", "x">> }
\* the entry as created, line 163 ("safety, start, ...")
InitialEntry == <<"s", ",", " ", "x">>
\* str(e) of an exception raised by a library call
ExcMsgs == {"reason"}
\* the object VoskModel(path) returns
ModelHandle == "model"

\* ------------------------------------------------------------ the threads
Started == {t \in 1..MaxCycles : threads[t].pc # "unborn"}
Running == {t \in Started : threads[t].pc # "done"}

\* a local variable of a frame that has no value yet
NoText == <<"<unset>">>
\* who registered a callback: the loader thread, or listen thread 1, 2, ...
Loader == 0
Nobody == -1
Reloader == -2

\* a listen thread: its position in listen, its locals (e, text, the toggle
\* value it read, the entry text it read, the model it gave KaldiRecognizer),
\* how the cycle ended, the operator inputs as they were at its start, and
\* its place among the cycles in the order their recognition returned
NewThread == [pc |-> "unborn", e |-> Unbound, offline |-> "unread", text |-> NoText,
              user_input |-> NoText, outcome |-> None, vosk_recognizer |-> None,
              start_toggle |-> FALSE, start_entry |-> <<>>, completed |-> 0]

\* a callback handed to app.after: what it does, whose frame it closes
\* over, whether it reads the frame's variable e when it runs, and what it
\* writes: a status text, a transcript line or a key-phrase line
Callback(op, src, text, color, cell) ==
    [op |-> op, src |-> src, fg_color |-> color, cell |-> cell,
     text |-> IF op \in {"transcript_insert", "key_phrase_insert"} THEN "" ELSE text,
     line |-> IF op = "transcript_insert" THEN text ELSE <<>>,
     key_phrases |-> IF op = "key_phrase_insert" THEN text
                     ELSE [kind |-> "", phrases |-> <<>>]]

\* app.after(0, cb): register cb behind the callbacks already registered.
\* MaxPending bounds the callbacks waiting for the foreground: a thread at an
\* app.after call waits until the foreground has room for its callback.
after(cb) == Len(queue) < MaxPending /\ queue' = Append(queue, cb)

\* the frame variable e of the thread a callback closes over
CellOf(src) ==
    IF src = Loader THEN loader.e
    ELSE IF src = Reloader THEN reloader.e
    ELSE threads[src].e

Init ==
    /\ VoskModel \in {None, "vosk.Model"}
    /\ vosk_model = None
    /\ is_vosk_loaded = FALSE
    /\ loader = [pc |-> "scheduled", e |-> Unbound]
    /\ reloader = [pc |-> "uncalled", e |-> Unbound]
    /\ threads = [t \in 1..MaxCycles |-> NewThread]
    /\ queue = <<>>
    /\ persistent_status_label = <<"Initializing...">>
    /\ ephemeral_status_label = [text |-> <<"">>, fg_color |-> "default", src |-> Nobody]
    /\ progress_bar = "hidden"
    /\ phrase_entry = InitialEntry
    /\ transcript_text = <<>>
    /\ key_phrase_text = <<>>
    /\ toggle_var = FALSE
    /\ edits = 0
    /\ callback_errors = {}
    /\ call = NoCall

fg_vars == <<persistent_status_label, ephemeral_status_label, progress_bar,
             transcript_text, key_phrase_text, callback_errors>>
input_vars == <<phrase_entry, toggle_var, edits>>
model_vars == <<VoskModel, vosk_model, is_vosk_loaded>>

\* ------------------------------------------------- the operator's inputs
\* the "Start Listening" button, lines 61-64 and 190: a new thread per click
start_listening_thread ==
    /\ Cardinality(Started) < MaxCycles
    /\ LET t == Cardinality(Started) + 1
       IN  threads' = [threads EXCEPT ![t] =
                          [@ EXCEPT !.pc = "l69",
                                    !.start_toggle = toggle_var,
                                    !.start_entry = phrase_entry]]
    /\ UNCHANGED <<model_vars, loader, queue, fg_vars, input_vars, call, reloader>>

\* the "Use Offline Recognition" switch, lines 193-199
toggle_switch ==
    /\ edits < MaxEdits
    /\ edits' = edits + 1
    /\ toggle_var' = ~toggle_var
    /\ UNCHANGED <<model_vars, loader, threads, queue, fg_vars, phrase_entry, call, reloader>>

\* typing into the phrase entry, line 162
phrase_entry_edit ==
    /\ edits < MaxEdits
    /\ edits' = edits + 1
    /\ \E v \in EntryTexts \union {InitialEntry} :
          /\ v # phrase_entry
          /\ phrase_entry' = v
    /\ UNCHANGED <<model_vars, loader, threads, queue, fg_vars, toggle_var, call, reloader>>

\* ------------------------------------------------------- the foreground
\* start_progress, lines 41-44
start_progress == "shown"
\* stop_progress, lines 46-49
stop_progress == "hidden"

\* the text a status lambda computes when it runs
StatusText(cb) == IF cb.cell = "e" THEN <<cb.text, CellOf(cb.src)>> ELSE <<cb.text>>

\* a lambda that reads e after the except block deleted it raises NameError
Raises(cb) == cb.cell = "e" /\ CellOf(cb.src) = Unbound

\* app.mainloop(), line 209: run the oldest registered callback
mainloop_after ==
    /\ queue # <<>>
    /\ LET cb == Head(queue)
       IN  /\ queue' = Tail(queue)
           /\ callback_errors' =
                 IF Raises(cb)
                 THEN callback_errors \union {[src |-> cb.src, exc |-> "NameError"]}
                 ELSE callback_errors
           /\ progress_bar' =
                 IF cb.op = "start_progress" THEN start_progress
                 ELSE IF cb.op = "stop_progress" THEN stop_progress
                 ELSE progress_bar
           /\ ephemeral_status_label' =
                 IF cb.op = "ephemeral" /\ ~Raises(cb)
                 THEN [text |-> StatusText(cb), fg_color |-> cb.fg_color, src |-> cb.src]
                 ELSE ephemeral_status_label
           /\ persistent_status_label' =
                 IF cb.op = "persistent" /\ ~Raises(cb)
                 THEN StatusText(cb)
                 ELSE persistent_status_label
           /\ transcript_text' =
                 IF cb.op = "transcript_insert"
                 THEN Append(transcript_text, [src |-> cb.src, line |-> cb.line])
                 ELSE transcript_text
           /\ key_phrase_text' =
                 IF cb.op = "key_phrase_insert"
                 THEN Append(key_phrase_text, [src |-> cb.src, line |-> cb.key_phrases])
                 ELSE key_phrase_text
    /\ UNCHANGED <<model_vars, loader, threads, input_vars, call, reloader>>

\* ------------------------------------------------------- the loader thread
LoaderAt(pc) == loader.pc = pc
LoaderTo(pc) == loader' = [loader EXCEPT !.pc = pc]
loader_frame == <<VoskModel, threads, fg_vars, input_vars, call, reloader>>

\* load_model_in_thread, lines 201-207: the timer of line 207 fires and
\* the thread starts at line 24
load_model_in_thread ==
    /\ LoaderAt("scheduled")
    /\ LoaderTo(IF VoskModel # None THEN "l26" ELSE "l39")
    /\ UNCHANGED <<loader_frame, vosk_model, is_vosk_loaded, queue>>

\* line 26
load_26 ==
    /\ LoaderAt("l26")
    /\ after(Callback("persistent", Loader,
                      "Loading offline voice recognition model...", "", "none"))
    /\ LoaderTo("l27")
    /\ UNCHANGED <<loader_frame, vosk_model, is_vosk_loaded>>

\* line 27
load_27 ==
    /\ LoaderAt("l27")
    /\ after(Callback("start_progress", Loader, "", "", "none"))
    /\ LoaderTo("l29")
    /\ UNCHANGED <<loader_frame, vosk_model, is_vosk_loaded>>

\* line 29: the constructor returns the model, or raises
load_29 ==
    /\ LoaderAt("l29")
    /\ \/ /\ vosk_model' = ModelHandle
          /\ LoaderTo("l30")
       \/ /\ \E msg \in ExcMsgs : loader' = [pc |-> "l36", e |-> msg]
          /\ UNCHANGED vosk_model
    /\ UNCHANGED <<loader_frame, is_vosk_loaded, queue>>

\* line 30
load_30 ==
    /\ LoaderAt("l30")
    /\ is_vosk_loaded' = TRUE
    /\ LoaderTo("l33")
    /\ UNCHANGED <<loader_frame, vosk_model, queue>>

\* line 33
load_33 ==
    /\ LoaderAt("l33")
    /\ after(Callback("stop_progress", Loader, "", "", "none"))
    /\ LoaderTo("l34")
    /\ UNCHANGED <<loader_frame, vosk_model, is_vosk_loaded>>

\* line 34
load_34 ==
    /\ LoaderAt("l34")
    /\ after(Callback("persistent", Loader, "Offline loaded | Online available", "", "none"))
    /\ LoaderTo("done")
    /\ UNCHANGED <<loader_frame, vosk_model, is_vosk_loaded>>

\* line 36
load_36 ==
    /\ LoaderAt("l36")
    /\ after(Callback("stop_progress", Loader, "", "", "none"))
    /\ LoaderTo("l37")
    /\ UNCHANGED <<loader_frame, vosk_model, is_vosk_loaded>>

\* line 37: the lambda closes over e and reads it when it runs
load_37 ==
    /\ LoaderAt("l37")
    /\ after(Callback("persistent", Loader, "Error loading offline model: ", "", "e"))
    /\ LoaderTo("l37_exit")
    /\ UNCHANGED <<loader_frame, vosk_model, is_vosk_loaded>>

\* the end of the except block of lines 35-37: Python deletes e
load_except_exit ==
    /\ LoaderAt("l37_exit")
    /\ loader' = [pc |-> "done", e |-> Unbound]
    /\ UNCHANGED <<loader_frame, vosk_model, is_vosk_loaded, queue>>

\* line 39
load_39 ==
    /\ LoaderAt("l39")
    /\ after(Callback("persistent", Loader, "Vosk not installed.", "", "none"))
    /\ LoaderTo("done")
    /\ UNCHANGED <<loader_frame, vosk_model, is_vosk_loaded>>

\* ------------------------------------------------------ the listen threads
\* A step of listen runs from one access to shared state (the app.after
\* queue, a global, a widget) up to the next one; what a library call does
\* inside the thread (returning, raising) belongs to the step it is in.
At(t, pc) == threads[t].pc = pc
listen_frame == <<model_vars, loader, fg_vars, input_vars, call, reloader>>

\* one message for every failure (what the except clauses do not do)
handler_text_generic(kind) == "Error: "

\* the text an except clause of lines 110-115 publishes for an exception
handler_text(kind) ==
    IF kind = "RequestError" THEN "API unavailable"
    ELSE IF kind = "UnknownValueError" THEN "Could not understand audio"
    ELSE "Error: "

\* an exception of class kind raised in the try block of lines 68-108: its
\* except clause registers the status lambda; only "except Exception as e"
\* (line 114) binds e, and its lambda reads e when it runs
raise(t, kind, msg) ==
    /\ after(Callback("ephemeral", t, handler_text(kind), "red",
                      IF kind = "Exception" THEN "e" ELSE "none"))
    /\ threads' = [threads EXCEPT ![t] =
                      [@ EXCEPT !.pc = IF kind = "Exception" THEN "l115_exit" ELSE "l117",
                                !.e = IF kind = "Exception" THEN msg ELSE Unbound,
                                !.outcome = kind]]

goto(t, pc) == threads' = [threads EXCEPT ![t].pc = pc]

\* line 69
listen_69(t) ==
    /\ At(t, "l69")
    /\ after(Callback("start_progress", t, "", "", "none"))
    /\ goto(t, "l74")
    /\ UNCHANGED listen_frame

\* lines 71-77: open the microphone and calibrate, then "Listening..."
listen_74(t) ==
    /\ At(t, "l74")
    /\ \/ /\ after(Callback("ephemeral", t, "Listening...", "blue", "none"))
          /\ goto(t, "l78")
       \/ \E msg \in ExcMsgs : raise(t, "Exception", msg)
    /\ UNCHANGED listen_frame

\* lines 78-80: record the utterance, then toggle_var.get(), called in the
\* listen thread
listen_78(t) ==
    /\ At(t, "l78")
    /\ \/ /\ threads' = [threads EXCEPT ![t] =
                            [@ EXCEPT !.offline = IF toggle_var THEN "offline" ELSE "online",
                                      !.pc = IF toggle_var THEN "l81" ELSE "l103"]]
          /\ UNCHANGED queue
       \/ \E msg \in ExcMsgs : raise(t, "Exception", msg)
    /\ UNCHANGED listen_frame

\* line 81 without its left operand: is_vosk_loaded is not looked at
listen_81_flag_unread(t) ==
    /\ At(t, "l81")
    /\ goto(t, "l81_or")
    /\ UNCHANGED <<listen_frame, queue>>

\* line 81, left operand: not is_vosk_loaded
listen_81(t) ==
    /\ At(t, "l81")
    /\ goto(t, IF ~is_vosk_loaded THEN "l82" ELSE "l81_or")
    /\ UNCHANGED <<listen_frame, queue>>

\* line 81, right operand: vosk_model is None
listen_81_or(t) ==
    /\ At(t, "l81_or")
    /\ goto(t, IF vosk_model = None THEN "l82" ELSE "l86")
    /\ UNCHANGED <<listen_frame, queue>>

\* lines 82-83 without the return of line 83: the cycle goes on to line 86
listen_82_falls_through(t) ==
    /\ At(t, "l82")
    /\ after(Callback("ephemeral", t, "Offline model not loaded yet", "red", "none"))
    /\ threads' = [threads EXCEPT ![t] = [@ EXCEPT !.pc = "l86", !.outcome = "ModelNotReady"]]
    /\ UNCHANGED listen_frame

\* lines 82-83: report and return (through the finally clause)
listen_82(t) ==
    /\ At(t, "l82")
    /\ after(Callback("ephemeral", t, "Offline model not loaded yet", "red", "none"))
    /\ threads' = [threads EXCEPT ![t] = [@ EXCEPT !.pc = "l117", !.outcome = "ModelNotReady"]]
    /\ UNCHANGED listen_frame

\* lines 86-87: resample, and build the decoder on the global vosk_model
listen_86(t) ==
    /\ At(t, "l86")
    /\ \/ /\ threads' = [threads EXCEPT ![t] =
                            [@ EXCEPT !.pc = "l90", !.vosk_recognizer = vosk_model]]
          /\ UNCHANGED queue
       \/ \E msg \in ExcMsgs : raise(t, "Exception", msg)
    /\ UNCHANGED listen_frame

\* the cycles whose recognition has returned a text
Recognized == {u \in 1..MaxCycles : threads[u].completed > 0}

\* recognition returns text to cycle t, the next one to complete
recognized(t, text) ==
    threads' = [threads EXCEPT ![t] =
                   [@ EXCEPT !.pc = "l106", !.text = text,
                             !.completed = Cardinality(Recognized) + 1]]

\* lines 89-99: the decoder's text, from Result() or from FinalResult()
listen_90(t) ==
    /\ At(t, "l90")
    /\ \/ /\ \E text \in RecTexts : recognized(t, text)
          /\ UNCHANGED queue
       \/ \E msg \in ExcMsgs : raise(t, "Exception", msg)
    /\ UNCHANGED listen_frame

\* line 103: the online service's text, or one of the service's failures
listen_103(t) ==
    /\ At(t, "l103")
    /\ \/ /\ \E text \in RecTexts : recognized(t, text)
          /\ UNCHANGED queue
       \/ raise(t, "RequestError", "")
       \/ raise(t, "UnknownValueError", "")
       \/ \E msg \in ExcMsgs : raise(t, "Exception", msg)
    /\ UNCHANGED listen_frame

\* line 106
listen_106(t) ==
    /\ At(t, "l106")
    /\ after(Callback("transcript_insert", t, threads[t].text, "", "none"))
    /\ goto(t, "l107")
    /\ UNCHANGED listen_frame

\* line 107
listen_107(t) ==
    /\ At(t, "l107")
    /\ after(Callback("ephemeral", t, "Transcription successful", "green", "none"))
    /\ goto(t, "l121")
    /\ UNCHANGED listen_frame

\* lines 108 and 119-130: process_text reads phrase_entry.get() in the
\* listen thread, matches, and registers the key-phrase lambda; or a call
\* in it raises
process_text(t) ==
    /\ At(t, "l121")
    /\ \/ LET phrases == extract_phrases(threads[t].text, target_phrases_of(phrase_entry))
          IN  /\ after(Callback("key_phrase_insert", t, key_phrase_line(phrases), "", "none"))
              /\ threads' = [threads EXCEPT ![t] =
                                [@ EXCEPT !.pc = "l117", !.user_input = phrase_entry,
                                          !.outcome = "success"]]
       \/ \E msg \in ExcMsgs : raise(t, "Exception", msg)
    /\ UNCHANGED listen_frame

\* the end of the except block of lines 114-115: Python deletes e
listen_except_exit(t) ==
    /\ At(t, "l115_exit")
    /\ threads' = [threads EXCEPT ![t] = [@ EXCEPT !.pc = "l117", !.e = Unbound]]
    /\ UNCHANGED <<listen_frame, queue>>

\* listen without the finally clause of lines 116-117
listen_117_no_finally(t) ==
    /\ At(t, "l117")
    /\ goto(t, "done")
    /\ UNCHANGED <<listen_frame, queue>>

\* lines 116-117
listen_117(t) ==
    /\ At(t, "l117")
    /\ after(Callback("stop_progress", t, "", "", "none"))
    /\ goto(t, "done")
    /\ UNCHANGED listen_frame

\* ------------------------------------------------------ the specification
load_vosk_model ==
    \/ load_26 \/ load_27 \/ load_29 \/ load_30 \/ load_33
    \/ load_34 \/ load_36 \/ load_37 \/ load_except_exit \/ load_39

listen(t) ==
    \/ listen_69(t) \/ listen_74(t) \/ listen_78(t)
    \/ listen_81(t) \/ listen_81_or(t) \/ listen_82(t)
    \/ listen_86(t) \/ listen_90(t) \/ listen_103(t)
    \/ listen_106(t) \/ listen_107(t) \/ process_text(t)
    \/ listen_except_exit(t) \/ listen_117(t)

Next ==
    \/ start_listening_thread
    \/ toggle_switch
    \/ phrase_entry_edit
    \/ load_model_in_thread
    \/ mainloop_after
    \/ load_vosk_model
    \/ \E t \in 1..MaxCycles : listen(t)

Spec == Init /\ [][Next]_vars

\* ------------------------------------------- extract_phrases called alone
Alphabet == {"s", "S", " "}
Strings(n) == UNION {[1..k -> Alphabet] : k \in 0..n}
PhraseLists == UNION {[1..k -> Strings(MaxPhraseLen)] : k \in 0..MaxPhrases}
Pending == <<"<pending>">>

InitExtract ==
    /\ VoskModel = None
    /\ vosk_model = None
    /\ is_vosk_loaded = FALSE
    /\ loader = [pc |-> "scheduled", e |-> Unbound]
    /\ reloader = [pc |-> "uncalled", e |-> Unbound]
    /\ threads = [t \in 1..MaxCycles |-> NewThread]
    /\ queue = <<>>
    /\ persistent_status_label = <<"Initializing...">>
    /\ ephemeral_status_label = [text |-> <<"">>, fg_color |-> "default", src |-> Nobody]
    /\ progress_bar = "hidden"
    /\ phrase_entry = InitialEntry
    /\ transcript_text = <<>>
    /\ key_phrase_text = <<>>
    /\ toggle_var = FALSE
    /\ edits = 0
    /\ callback_errors = {}
    /\ \E text \in Strings(MaxTextLen), target_phrases \in PhraseLists :
          call = [fn |-> "extract_phrases", text |-> text,
                  target_phrases |-> target_phrases, result |-> Pending]

extract_phrases_call ==
    /\ call.fn = "extract_phrases"
    /\ call.result = Pending
    /\ call' = [call EXCEPT !.result = extract_phrases(call.text, call.target_phrases)]
    /\ UNCHANGED <<model_vars, loader, reloader, threads, queue, fg_vars, input_vars>>

NextExtract == extract_phrases_call

SpecExtract == InitExtract /\ [][NextExtract]_vars

\* ---------------------------------------------------------- fair scheduling
\* The steps of listen(t) that the thread takes by itself once it is
\* scheduled.  The two others wait for the outside world and the code gives
\* neither a time limit: recognizer.listen (line 78, phrase_time_limit only,
\* no timeout) returns once somebody has spoken, and recognize_google
\* (line 103, no operation_timeout) once the service has answered.
listen_scheduled(t) ==
    \/ listen_69(t) \/ listen_74(t)
    \/ listen_81(t) \/ listen_81_or(t) \/ listen_82(t)
    \/ listen_86(t) \/ listen_90(t)
    \/ listen_106(t) \/ listen_107(t) \/ process_text(t)
    \/ listen_except_exit(t) \/ listen_117(t)

\* the foreground loop runs every registered callback, and every listen
\* thread that can take a step of its own is scheduled
FairSpec ==
    /\ Init /\ [][Next]_vars
    /\ WF_vars(mainloop_after)
    /\ \A t \in 1..MaxCycles : SF_vars(listen_scheduled(t))

\* --------------------------------------- load_model_in_thread called twice
\* load_model_in_thread, lines 201-204, called again after the call of
\* line 207: it starts another thread on load_vosk_model
load_model_in_thread_again ==
    /\ loader.pc # "scheduled"
    /\ reloader.pc = "uncalled"
    /\ reloader' = [reloader EXCEPT !.pc = IF VoskModel # None THEN "l26" ELSE "l39"]
    /\ UNCHANGED <<model_vars, loader, threads, queue, fg_vars, input_vars, call>>

\* load_vosk_model, lines 21-39, run by that second thread
load_vosk_model_again ==
    LET at(pc) == reloader.pc = pc
        to(pc) == reloader' = [reloader EXCEPT !.pc = pc]
        cb(op, text, cell) == Callback(op, Reloader, text, "", cell)
        globals == <<vosk_model, is_vosk_loaded>>
    IN  /\ \/ /\ at("l26")
              /\ after(cb("persistent", "Loading offline voice recognition model...", "none"))
              /\ to("l27") /\ UNCHANGED globals
           \/ /\ at("l27")
              /\ after(cb("start_progress", "", "none"))
              /\ to("l29") /\ UNCHANGED globals
           \/ /\ at("l29")
              /\ vosk_model' = ModelHandle
              /\ to("l30") /\ UNCHANGED <<is_vosk_loaded, queue>>
           \/ /\ at("l29")
              /\ \E msg \in ExcMsgs : reloader' = [pc |-> "l36", e |-> msg]
              /\ UNCHANGED <<globals, queue>>
           \/ /\ at("l30")
              /\ is_vosk_loaded' = TRUE
              /\ to("l33") /\ UNCHANGED <<vosk_model, queue>>
           \/ /\ at("l33")
              /\ after(cb("stop_progress", "", "none"))
              /\ to("l34") /\ UNCHANGED globals
           \/ /\ at("l34")
              /\ after(cb("persistent", "Offline loaded | Online available", "none"))
              /\ to("done") /\ UNCHANGED globals
           \/ /\ at("l36")
              /\ after(cb("stop_progress", "", "none"))
              /\ to("l37") /\ UNCHANGED globals
           \/ /\ at("l37")
              /\ after(cb("persistent", "Error loading offline model: ", "e"))
              /\ to("l37_exit") /\ UNCHANGED globals
           \/ /\ at("l37_exit")
              /\ reloader' = [pc |-> "done", e |-> Unbound]
              /\ UNCHANGED <<globals, queue>>
           \/ /\ at("l39")
              /\ after(cb("persistent", "Vosk not installed.", "none"))
              /\ to("done") /\ UNCHANGED globals
        /\ UNCHANGED <<VoskModel, loader, threads, fg_vars, input_vars, call>>

NextLoad ==
    \/ load_model_in_thread
    \/ load_model_in_thread_again
    \/ load_vosk_model
    \/ load_vosk_model_again
    \/ mainloop_after

SpecLoad == Init /\ [][NextLoad]_vars

\* ------------------------------------------ process_text's parse, alone
\* Lines 121-125 of process_text applied to every content of the phrase
\* entry of up to MaxInputLen characters; the operator may retype the entry
\* between two calls.
ParseAlphabet == {"s", " ", ","}
ParseInputs == UNION {[1..k -> ParseAlphabet] : k \in 0..MaxInputLen}

InitParse ==
    /\ VoskModel = None
    /\ vosk_model = None
    /\ is_vosk_loaded = FALSE
    /\ loader = [pc |-> "scheduled", e |-> Unbound]
    /\ reloader = [pc |-> "uncalled", e |-> Unbound]
    /\ threads = [t \in 1..MaxCycles |-> NewThread]
    /\ queue = <<>>
    /\ persistent_status_label = <<"Initializing...">>
    /\ ephemeral_status_label = [text |-> <<"">>, fg_color |-> "default", src |-> Nobody]
    /\ progress_bar = "hidden"
    /\ phrase_entry \in ParseInputs
    /\ transcript_text = <<>>
    /\ key_phrase_text = <<>>
    /\ toggle_var = FALSE
    /\ edits = 0
    /\ callback_errors = {}
    /\ call = [fn |-> "process_text", user_input |-> NoText,
               target_phrases |-> <<>>, returned |-> FALSE]

\* lines 121-125: read the entry and build target_phrases
process_text_parse ==
    /\ call.fn = "process_text"
    /\ ~call.returned
    /\ call' = [call EXCEPT !.user_input = phrase_entry,
                            !.target_phrases = target_phrases_of(phrase_entry),
                            !.returned = TRUE]
    /\ UNCHANGED <<model_vars, loader, reloader, threads, queue, fg_vars, input_vars>>

\* the operator retypes the phrase entry; the next cycle calls process_text
phrase_entry_retype ==
    /\ call.fn = "process_text"
    /\ call.returned
    /\ \E s \in ParseInputs \ {phrase_entry} : phrase_entry' = s
    /\ call' = [call EXCEPT !.returned = FALSE]
    /\ UNCHANGED <<model_vars, loader, reloader, threads, queue, fg_vars,
                   toggle_var, edits>>

NextParse == process_text_parse \/ phrase_entry_retype

SpecParse == InitParse /\ [][NextParse]_vars

\* =============================================================== properties
Threads == 1..MaxCycles
Failures == {"ModelNotReady", "RequestError", "UnknownValueError", "Exception"}
Pending_from(src) == {i \in 1..Len(queue) : queue[i].src = src}
Lines_from(sink, src) == {i \in 1..Len(sink) : sink[i].src = src}
InsertsPending(t) ==
    {i \in Pending_from(t) : queue[i].op \in {"transcript_insert", "key_phrase_insert"}}
\* the cycle of thread t is between its start and its finally clause
InCycle(t) == threads[t].pc \notin {"unborn", "l117", "done"}
\* the loader registered start_progress and has not registered stop_progress
LoaderHoldsProgress == loader.pc \in {"l29", "l30", "l33", "l36"}

\* C1: at most one listen cycle is in progress at any time: a click while a
\* cycle has not returned to Idle starts no second one, so no state has two
\* listen threads between their start and their finally clause.
C1_AtMostOneCycle == Cardinality({t \in Threads : InCycle(t)}) <= 1

\* what holds of a cycle from its model-not-ready exit on, and the steps that
\* take it there and publish its status
C2_NotReadyExit(t) ==
    threads[t].outcome = "ModelNotReady" =>
        /\ threads[t].vosk_recognizer = None
        /\ threads[t].text = NoText
        /\ InsertsPending(t) = {}
        /\ Lines_from(transcript_text, t) = {}
        /\ Lines_from(key_phrase_text, t) = {}
        /\ \/ \E i \in Pending_from(t) :
                 /\ queue[i].op = "ephemeral"
                 /\ queue[i].text = "Offline model not loaded yet"
           \/ ephemeral_status_label.src = t =>
                 /\ ephemeral_status_label.text = <<"Offline model not loaded yet">>
                 /\ ephemeral_status_label.fg_color = "red"

C2_CheckStep(t) ==
    /\ (At(t, "l81") /\ ~is_vosk_loaded /\ threads'[t] # threads[t])
          => threads'[t].pc = "l82"
    /\ (At(t, "l81_or") /\ vosk_model = None /\ threads'[t] # threads[t])
          => threads'[t].pc = "l82"
    /\ (At(t, "l82") /\ threads'[t] # threads[t])
          => /\ threads'[t].outcome = "ModelNotReady"
             /\ threads'[t].pc = "l117"
    /\ (/\ queue # <<>> /\ queue' = Tail(queue)
        /\ Head(queue).src = t /\ Head(queue).op = "ephemeral"
        /\ Head(queue).text = "Offline model not loaded yet")
          => ephemeral_status_label' =
                [text |-> <<"Offline model not loaded yet">>, fg_color |-> "red", src |-> t]

\* C2: a cycle that finds the offline switch on and the model not Ready when
\* listen checks it (line 81) takes the model-not-ready exit; from then on it
\* never builds the offline decoder, neither text box receives a line from
\* it, its last status is the red 'Offline model not loaded yet', and that
\* status is what the label shows when the foreground runs the callback.
C2_ModelNotReady ==
    /\ [](\A t \in Threads : C2_NotReadyExit(t))
    /\ [][\A t \in Threads : C2_CheckStep(t)]_vars

\* C2's case: an offline cycle took the model-not-ready exit, ended, and the
\* label shows its status
C2_Witness ==
    \E t \in Threads :
        /\ threads[t].outcome = "ModelNotReady"
        /\ threads[t].offline = "offline"
        /\ threads[t].pc = "done"
        /\ queue = <<>>
        /\ ephemeral_status_label.src = t

\* C3: a cycle that ends in a failure leaves the transcript text box
\* unchanged: no line of it, and no pending insert, comes from that cycle.
C3_FailureLeavesTranscript ==
    \A t \in Threads :
        threads[t].outcome \in Failures =>
            /\ Lines_from(transcript_text, t) = {}
            /\ \A i \in Pending_from(t) : queue[i].op # "transcript_insert"

\* C4: every failed cycle's error status takes effect: once the cycle has
\* ended and its callbacks have run, none of them raised on the foreground,
\* and a label last set by that cycle shows its red error message, not its
\* 'Listening...' or 'Transcription successful'.
C4_ErrorStatusTakesEffect ==
    \A t \in Threads :
        (/\ threads[t].outcome \in Failures
         /\ threads[t].pc = "done"
         /\ Pending_from(t) = {}) =>
            /\ \A err \in callback_errors : err.src # t
            /\ ephemeral_status_label.src = t => ephemeral_status_label.fg_color = "red"

\* C5 as stated: once the cycles are back in Idle and the dispatch queue is
\* drained, the progress indicator is hidden.
C5_HiddenWhenIdle ==
    (Started # {} /\ Running = {} /\ queue = <<>>) => progress_bar = "hidden"

\* the step in which a cycle ends registers its stop_progress
C5_ExitStep(t) ==
    (threads[t].pc # "done" /\ threads'[t].pc = "done") =>
        /\ Len(queue') = Len(queue) + 1
        /\ queue'[Len(queue')].op = "stop_progress"
        /\ queue'[Len(queue')].src = t

\* C5, amended: every exit of a cycle registers stop_progress (success, the
\* model-not-ready return, any exception), so that once no cycle is running,
\* the model loader is not between its own start_progress and stop_progress,
\* and the dispatch queue is drained, the progress indicator is hidden.
C5_ProgressCleared ==
    /\ []((Started # {} /\ Running = {} /\ ~LoaderHoldsProgress /\ queue = <<>>)
             => progress_bar = "hidden")
    /\ [][\A t \in Threads : C5_ExitStep(t)]_vars

\* C5's case: a cycle that ended in an exception is back in Idle after the
\* loader finished, the queue is drained and the indicator is hidden
C5_Witness ==
    \E t \in Threads :
        /\ threads[t].outcome = "Exception"
        /\ Running = {}
        /\ loader.pc = "done"
        /\ is_vosk_loaded
        /\ queue = <<>>
        /\ progress_bar = "hidden"

\* C6: the recognition mode and the phrase list a cycle uses are the values
\* the switch and the entry held when the cycle started.
C6_SnapshotAtStart ==
    \A t \in Threads :
        /\ threads[t].offline # "unread" =>
              threads[t].offline = (IF threads[t].start_toggle THEN "offline" ELSE "online")
        /\ threads[t].user_input # NoText =>
              threads[t].user_input = threads[t].start_entry

\* C7: no listen thread holds a value it read from a foreground object
\* itself: neither the switch's variable nor the entry is read in the thread.
C7_NoDirectForegroundAccess ==
    \A t \in Threads :
        /\ threads[t].offline = "unread"
        /\ threads[t].user_input = NoText

\* the spans of a text whose lower-cased tokens are those of a stripped,
\* non-empty target phrase, and the order of a list of spans
Lower(c) == IF c = "S" THEN "s" ELSE IF c = "R" THEN "r" ELSE c
lower(s) == [i \in 1..Len(s) |-> Lower(s[i])]
SameTokens(doc, i, j, phrase) ==
    LET p == nlp(strip(phrase))
    IN  /\ Len(p.tokens) = j - i + 1
        /\ \A k \in 1..Len(p.tokens) : lower(orth(doc, i + k - 1)) = lower(orth(p, k))
ExpectedSpans(text, target_phrases) ==
    LET doc == nlp(text)
    IN  {sp \in [start : 1..Len(doc.tokens), end : 1..Len(doc.tokens)] :
            /\ sp.start <= sp.end
            /\ \E n \in 1..Len(target_phrases) :
                  /\ strip(target_phrases[n]) # <<>>
                  /\ SameTokens(doc, sp.start, sp.end, target_phrases[n])}
LeftToRight(spans) ==
    \A a, b \in 1..Len(spans) :
        a < b => \/ spans[a].start < spans[b].start
                 \/ spans[a].start = spans[b].start /\ spans[a].end < spans[b].end
\* C8: extract_phrases(T, P) returns exactly the literal spans of T, left to
\* right and in T's casing, whose tokens equal, compared case-insensitively,
\* the tokens of some stripped non-empty phrase of P.
C8_CaseInsensitiveSpans ==
    (call.fn = "extract_phrases" /\ call.result # Pending) =>
        LET expected == ExpectedSpans(call.text, call.target_phrases)
            doc == nlp(call.text)
        IN  \E spans \in [1..Cardinality(expected) -> expected] :
               /\ LeftToRight(spans)
               /\ call.result = [m \in 1..Len(spans) |->
                                    span_text(doc, spans[m].start, spans[m].end)]

\* C9: when the model load fails, the loader ends, the model never becomes
\* Ready, and once the loader's callbacks have run the persistent status
\* holds the error message of that failure, with the reason of an exception.
C9_LoadFailureReported ==
    (loader.pc = "done" /\ ~is_vosk_loaded /\ Pending_from(Loader) = {}) =>
        /\ vosk_model = None
        /\ IF VoskModel = None
           THEN persistent_status_label = <<"Vosk not installed.">>
           ELSE \E msg \in ExcMsgs :
                   persistent_status_label = <<"Error loading offline model: ", msg>>

\* C10: in every state, is_vosk_loaded is True exactly when vosk_model is
\* not None.
C10_FlagAgreesWithHandle == is_vosk_loaded = (vosk_model # None)

\* the load threads that have called VoskModel(...) at line 29
Constructed(thread) ==
    \/ thread.pc \in {"l30", "l33", "l34", "l36", "l37", "l37_exit"}
    \/ thread.pc = "done" /\ VoskModel # None
LoadAttempts ==
    (IF Constructed(loader) THEN 1 ELSE 0) + (IF Constructed(reloader) THEN 1 ELSE 0)

\* C11: over any sequence of calls of load_model_in_thread, at most one load
\* attempt (one VoskModel construction) is made: a second call is a no-op.
C11_OneLoadAttempt == LoadAttempts <= 1

\* C12: in every quiescent state (no cycle running, no callback pending) the
\* key-phrase sink holds as many lines as the transcript sink holds entries:
\* every cycle that appends a transcript entry appends exactly one line.
C12_OneLinePerEntry ==
    (Running = {} /\ queue = <<>>) => Len(key_phrase_text) = Len(transcript_text)

\* C13: the transcript sink holds its entries in the order in which the
\* recognitions of their cycles completed: of two entries, the earlier one
\* belongs to the cycle whose recognition returned first.
C13_CompletionOrder ==
    \A i, j \in 1..Len(transcript_text) :
        i < j => threads[transcript_text[i].src].completed
                     < threads[transcript_text[j].src].completed

\* the failures of the online backend and the status each must end in
BackendFailures == {"RequestError", "UnknownValueError"}
C14_StatusOf(kind) ==
    IF kind = "RequestError" THEN "API unavailable" ELSE "Could not understand audio"
C14_ErrorCallback(t) ==
    Callback("ephemeral", t, C14_StatusOf(threads[t].outcome), "red", "none")

\* a cycle whose recognition failed in the backend: it is at or past its
\* finally block, no line or pending insert is its own, and the last status
\* it registered is the red error of its failure
C14_Failed(t) ==
    threads[t].outcome \in BackendFailures =>
        /\ threads[t].pc \in {"l117", "done"}
        /\ threads[t].offline = "online"
        /\ InsertsPending(t) = {}
        /\ Lines_from(transcript_text, t) = {}
        /\ Lines_from(key_phrase_text, t) = {}
        /\ LET statuses == {i \in Pending_from(t) : queue[i].op = "ephemeral"}
           IN  IF statuses # {}
               THEN \A i \in statuses :
                       (\A j \in statuses : j <= i) => queue[i] = C14_ErrorCallback(t)
               ELSE ephemeral_status_label.src = t =>
                       /\ ephemeral_status_label.text = <<C14_StatusOf(threads[t].outcome)>>
                       /\ ephemeral_status_label.fg_color = "red"

C14_Step(t) ==
    /\ (threads[t].outcome \notin BackendFailures /\ threads'[t].outcome \in BackendFailures)
          => /\ At(t, "l103")
             /\ threads'[t].pc = "l117"
             /\ queue' = Append(queue, Callback("ephemeral", t,
                                                C14_StatusOf(threads'[t].outcome), "red", "none"))
             /\ UNCHANGED <<transcript_text, key_phrase_text>>
    /\ threads[t].outcome \in BackendFailures
          => threads'[t].outcome = threads[t].outcome
    /\ (/\ threads[t].outcome \in BackendFailures
        /\ queue # <<>> /\ queue' = Tail(queue)
        /\ Head(queue).op = "ephemeral"
        /\ Head(queue) = C14_ErrorCallback(t))
          => ephemeral_status_label' =
                [text |-> <<C14_StatusOf(threads[t].outcome)>>, fg_color |-> "red", src |-> t]
    /\ (threads[t].outcome \in BackendFailures /\ At(t, "l117") /\ threads'[t] # threads[t])
          => /\ threads'[t].pc = "done"
             /\ queue' = Append(queue, Callback("stop_progress", t, "", "", "none"))

\* C14: a cycle whose online recognition raises RequestError ends with the
\* red status 'API unavailable', and one whose recognition raises
\* UnknownValueError with the red status 'Could not understand audio'; the
\* failure registers that status and goes to the finally block, neither text
\* box receives a line from the cycle, and the cycle ends by registering
\* stop_progress.
C14_BackendFailureStatus ==
    /\ [](\A t \in Threads : C14_Failed(t))
    /\ [][\A t \in Threads : C14_Step(t)]_vars

\* C14's case: one cycle ended in RequestError, the next in
\* UnknownValueError, and the label shows the status of the second
C14_Witness ==
    /\ threads[1].outcome = "RequestError" /\ threads[1].pc = "done"
    /\ threads[2].outcome = "UnknownValueError" /\ threads[2].pc = "done"
    /\ queue = <<>>
    /\ ephemeral_status_label =
          [text |-> <<"Could not understand audio">>, fg_color |-> "red", src |-> 2]
    /\ transcript_text = <<>>
    /\ key_phrase_text = <<>>
    /\ progress_bar = "hidden"

\* q is p without its leading and trailing spaces
C15_IsStripOf(q, p) ==
    \E a \in 1..Len(p) + 1, b \in 0..Len(p) :
        /\ q = SubSeq(p, a, b)
        /\ \A i \in 1..Len(p) : (i < a \/ i > b) => p[i] = " "
        /\ q # <<>> => (q[1] # " " /\ q[Len(q)] # " ")

\* the k-th of the n pieces of u that its commas delimit
C15_Piece(u, k, n) ==
    LET commas == {i \in 1..Len(u) : u[i] = ","}
        nth(m) == CHOOSE c \in commas : Cardinality({d \in commas : d < c}) = m - 1
        lo == IF k = 1 THEN 0 ELSE nth(k - 1)
        hi == IF k = n THEN Len(u) + 1 ELSE nth(k)
    IN  SubSeq(u, lo + 1, hi - 1)

\* C15: process_text parses the phrase entry as it is at the call: an empty
\* or all-space entry gives the one built-in phrase ('safety reset', here
\* "s r"); any other entry gives one phrase per comma-delimited piece, in
\* order, each piece without its leading and trailing spaces.
C15_PhraseListParsed ==
    (call.fn = "process_text" /\ call.returned) =>
        LET u == call.user_input
            r == call.target_phrases
            n == Cardinality({i \in 1..Len(u) : u[i] = ","}) + 1
        IN  /\ u = phrase_entry
            /\ IF \A i \in 1..Len(u) : u[i] = " "
               THEN r = << <<"s", " ", "r">> >>
               ELSE /\ Len(r) = n
                    /\ \A k \in 1..n : C15_IsStripOf(r[k], C15_Piece(u, k, n))

\* C15's case: an entry of two spaces was parsed and gave the built-in phrase
C15_Witness ==
    /\ call.fn = "process_text" /\ call.returned
    /\ phrase_entry = <<" ", " ">>
    /\ call.user_input = <<" ", " ">>
    /\ call.target_phrases = << <<"s", " ", "r">> >>

\* C16: under fair scheduling of the listen threads and of the foreground
\* loop, every cycle that was started ends: its thread leaves the finally
\* block and its callbacks, stop_progress last, have been run.
C16_CycleEnds ==
    \A t \in Threads :
        (threads[t].pc # "unborn") ~> (threads[t].pc = "done" /\ Pending_from(t) = {})

\* a cycle past the readiness check of line 81 sees the flag set and the
\* handle in place, and a decoder it has built holds the loaded model
C17_PastCheck(t) ==
    /\ At(t, "l81_or") => is_vosk_loaded
    /\ At(t, "l86") => (is_vosk_loaded /\ vosk_model = ModelHandle)
    /\ threads[t].vosk_recognizer # None =>
          /\ threads[t].vosk_recognizer = ModelHandle
          /\ vosk_model = ModelHandle
          /\ is_vosk_loaded

C17_BuildStep(t) ==
    (threads[t].vosk_recognizer = None /\ threads'[t].vosk_recognizer # None) =>
        /\ At(t, "l86")
        /\ threads'[t].vosk_recognizer = vosk_model
        /\ vosk_model = ModelHandle /\ vosk_model' = ModelHandle
        /\ is_vosk_loaded /\ is_vosk_loaded'

\* C17: in every interleaving of load_vosk_model with listen, the model
\* listen passes to KaldiRecognizer (line 87) is the loaded model, never
\* None, and is_vosk_loaded is True when it does so and from then on; no
\* step of the loader between the check of line 81 and line 87 changes that.
C17_DecoderOnLoadedModel ==
    /\ [](\A t \in Threads : C17_PastCheck(t))
    /\ [][\A t \in Threads : C17_BuildStep(t)]_vars

\* C17's case: a cycle has built its decoder on the loaded model while the
\* loader thread is still inside load_vosk_model
C17_Witness ==
    \E t \in Threads :
        /\ threads[t].vosk_recognizer = ModelHandle
        /\ threads[t].offline = "offline"
        /\ loader.pc = "l33"

\* the callbacks of kind op that src has registered and the foreground has
\* not yet run
C18_Waiting(src, op) == {i \in Pending_from(src) : queue[i].op = op}

\* a task whose start_progress the foreground has run and whose
\* stop_progress it has not: a listen cycle, and the model loader
C18_CycleInProgress(t) ==
    /\ threads[t].pc \notin {"unborn", "l69"}
    /\ C18_Waiting(t, "start_progress") = {}
    /\ ~(threads[t].pc = "done" /\ C18_Waiting(t, "stop_progress") = {})
C18_LoadInProgress ==
    /\ VoskModel # None
    /\ loader.pc \notin {"scheduled", "l26", "l27"}
    /\ C18_Waiting(Loader, "start_progress") = {}
    /\ ~(/\ loader.pc \in {"l34", "l37", "l37_exit", "done"}
         /\ C18_Waiting(Loader, "stop_progress") = {})

\* C18: the progress indicator is shown in every state in which the
\* foreground has run the start_progress of some task (a listen cycle, the
\* model load) and not yet that task's stop_progress.
C18_ShownWhileInProgress ==
    (C18_LoadInProgress \/ \E t \in Threads : C18_CycleInProgress(t))
        => progress_bar = "shown"

\* C19: for every k, the k-th line of the key-phrase text box is the line of
\* the phrases matched in the text of the k-th transcript entry, with the
\* phrase list parsed from the entry when the line was made: a k-th
\* transcript entry exists and gives that line.
C19_SinksAligned ==
    \A k \in 1..Len(key_phrase_text) :
        /\ k <= Len(transcript_text)
        /\ key_phrase_text[k].line =
              key_phrase_line(extract_phrases(
                  transcript_text[k].line,
                  target_phrases_of(threads[key_phrase_text[k].src].user_input)))

====
